---------------------------- MODULE Spec2Model ----------------------------
(***************************************************************************)
(* Model of the Spice VS Code extension's source-text analyser             *)
(* (src/src/extension.ts): the block boundary resolver, the symbol         *)
(* scanner, the built-in shadow detector, the diagnostic generator and     *)
(* the compile / run command flow.                                         *)
(*                                                                         *)
(* A document text is a sequence of one-character strings; offsets,        *)
(* lines and columns are 0-based as in the editor API, CharAt(t, o) being  *)
(* the character at offset o.  Regular expressions are modelled by what    *)
(* the engine does on the characters: a matcher returns the offset just    *)
(* after the match, or NoMatch.                                            *)
(***************************************************************************)
EXTENDS Integers, Sequences, FiniteSets, TLC

VARIABLES
    text,       \* the text of the document handed to the analysers
    typed,      \* the number of pieces typed so far
    block,      \* the last findBlockEnd call: [called, start, end]
    outline,    \* the last provideDocumentSymbols result: [done, symbols]
    decls,      \* the declarations typed into text: <<[start, close], ...>>
    wellFormed, \* text consists of whole declarations and white space only
    shadow,     \* the last detectBuiltinOverrides result: [done, overrides]
    definition, \* the last provideDefinition call: [done, word, locations]
    completion, \* the last parseDocumentSymbols result: [done, items]
    documents,            \* uri -> [open, text]: the editor's documents
    diagnosticCollection, \* uri -> [set, diagnostics]
    enableDiagnostics,    \* the setting spice.enableDiagnostics
    activeEditor,          \* the uri of the active editor's document, or "none"
    checkBuiltinOverrides, \* the setting spice.checkBuiltinOverrides
    pc,         \* where the command in flight awaits, or "idle"
    run,        \* what the command in flight (or the last one) did
    message,    \* the last message shown to the user
    invocations, \* the number of commands invoked so far
    lastAnswer  \* history: the latest answer to the override warning, or
                \* "enabled" once enableBuiltinOverrideCheck ran after it

scanVars == <<text, typed, block, outline, decls, wellFormed, shadow,
             definition, completion>>
diagVars == <<documents, diagnosticCollection, enableDiagnostics>>
cmdVars == <<activeEditor, checkBuiltinOverrides, pc, run, message, invocations,
            lastAnswer>>

vars == <<scanVars, diagVars, cmdVars>>

---------------------------------------------------------------------------
(* Characters and text primitives                                          *)

Lower == {"a", "b", "c", "d", "e", "f", "g", "h", "i", "j", "k", "l", "m",
          "n", "o", "p", "q", "r", "s", "t", "u", "v", "w", "x", "y", "z"}

Upper == {"A", "B", "C", "D", "E", "F", "G", "H", "I", "J", "K", "L", "M",
          "N", "O", "P", "Q", "R", "S", "T", "U", "V", "W", "X", "Y", "Z"}

Digit == {"0", "1", "2", "3", "4", "5", "6", "7", "8", "9"}

\* the regular expression class \w
WordChar == Lower \cup Upper \cup Digit \cup {"_"}

\* the regular expression class \s, which is also what trim() strips
Space == {" ", "\t", "\n", "\r", "\f"}

NoMatch == -1

CharAt(t, o) == t[o + 1]

\* t.slice(from, to)
Slice(t, from, to) == SubSeq(t, from + 1, to)

\* the literal lit stands in t at offset o
LitAt(t, o, lit) ==
    /\ o >= 0
    /\ o + Len(lit) <= Len(t)
    /\ \A k \in 1..Len(lit) : t[o + k] = lit[k]

\* the offset where a greedy run of characters of S starting at o stops
RECURSIVE Span(_, _, _)
Span(t, o, S) ==
    IF o < Len(t) /\ CharAt(t, o) \in S THEN Span(t, o + 1, S) ELSE o

\* the first offset >= o holding character c, or NoMatch
RECURSIVE IndexOfChar(_, _, _)
IndexOfChar(t, c, o) ==
    IF o >= Len(t) THEN NoMatch
    ELSE IF CharAt(t, o) = c THEN o
    ELSE IndexOfChar(t, c, o + 1)

\* text.split('\n'), and the lines of a document
RECURSIVE Lines(_)
Lines(t) ==
    LET nl == IndexOfChar(t, "\n", 0) IN
    IF nl = NoMatch THEN <<t>>
    ELSE <<Slice(t, 0, nl)>> \o Lines(Slice(t, nl + 1, Len(t)))

Position(l, c) == [line |-> l, character |-> c]

\* Position.isBeforeOrEqual
PosLE(p, q) ==
    \/ p.line < q.line
    \/ p.line = q.line /\ p.character <= q.character

\* document.positionAt(offset)
positionAt(t, offset) ==
    LET before == {k \in 0..(offset - 1) : CharAt(t, k) = "\n"}
        lineStart == IF before = {} THEN 0
                     ELSE 1 + CHOOSE k \in before : \A m \in before : m <= k
    IN  Position(Cardinality(before), offset - lineStart)

---------------------------------------------------------------------------
(* Block Boundary Resolver                                                 *)

\* the two nested for loops of findBlockEnd, at line i and column j
RECURSIVE ScanBlock(_, _, _, _, _)
ScanBlock(lines, i, j, braceCount, foundFirstBrace) ==
    IF i >= Len(lines) THEN Position(Len(lines) - 1, 0)
    ELSE IF j >= Len(lines[i + 1])
         THEN ScanBlock(lines, i + 1, 0, braceCount, foundFirstBrace)
    ELSE IF lines[i + 1][j + 1] = "{"
         THEN ScanBlock(lines, i, j + 1, braceCount + 1, TRUE)
    ELSE IF lines[i + 1][j + 1] = "}"
         THEN IF foundFirstBrace /\ braceCount - 1 = 0
              THEN Position(i, j + 1)
              ELSE ScanBlock(lines, i, j + 1, braceCount - 1, foundFirstBrace)
    ELSE ScanBlock(lines, i, j + 1, braceCount, foundFirstBrace)

findBlockEnd(document, startPos) ==
    ScanBlock(Lines(document), startPos.line, startPos.character, 0, FALSE)

---------------------------------------------------------------------------
(* Regular expressions of the Symbol Scanner                               *)

kwAbstract == <<"a", "b", "s", "t", "r", "a", "c", "t">>
kwFinal == <<"f", "i", "n", "a", "l">>
kwStatic == <<"s", "t", "a", "t", "i", "c">>
kwClass == <<"c", "l", "a", "s", "s">>
kwExtends == <<"e", "x", "t", "e", "n", "d", "s">>
kwImplements == <<"i", "m", "p", "l", "e", "m", "e", "n", "t", "s">>
kwInterface == <<"i", "n", "t", "e", "r", "f", "a", "c", "e">>
kwDef == <<"d", "e", "f">>
arrow == <<"-", ">">>

\* the result of a failed match attempt
Fail == [end |-> NoMatch, name |-> <<>>]

\* lit\s+ at offset o: the offset after the white space, or NoMatch
WordThenSpaces(t, o, lit) ==
    IF LitAt(t, o, lit) /\ Span(t, o + Len(lit), Space) > o + Len(lit)
    THEN Span(t, o + Len(lit), Space)
    ELSE NoMatch

\* an alternation (?:m1\s+|m2\s+|...) at offset o, the alternatives in order
RECURSIVE ModifierEnd(_, _, _)
ModifierEnd(t, o, mods) ==
    IF mods = <<>> THEN NoMatch
    ELSE IF WordThenSpaces(t, o, Head(mods)) # NoMatch
         THEN WordThenSpaces(t, o, Head(mods))
    ELSE ModifierEnd(t, o, Tail(mods))

\* (?:\s+extends\s+\w+)? at offset o: the offset after it, o when it is absent
ExtendsEnd(t, o) ==
    LET e == WordThenSpaces(t, Span(t, o, Space), kwExtends) IN
    IF Span(t, o, Space) > o /\ e # NoMatch /\ Span(t, e, WordChar) > e
    THEN Span(t, e, WordChar)
    ELSE o

\* (?:\s+implements\s+[\w\s,]+)? at offset o: \s+ gives back all but one
\* white space to the character class that follows it
ImplementsEnd(t, o) ==
    LET i == Span(t, o, Space)
        list == i + Len(kwImplements) + 1
    IN  IF /\ i > o
           /\ WordThenSpaces(t, i, kwImplements) # NoMatch
           /\ Span(t, list, WordChar \cup Space \cup {","}) > list
        THEN Span(t, list, WordChar \cup Space \cup {","})
        ELSE o

\* class\s+(\w+)(?:\s+extends\s+\w+)?(?:\s+implements\s+[\w\s,]+)? at o
ClassCore(t, o) ==
    LET s == WordThenSpaces(t, o, kwClass) IN
    IF s = NoMatch \/ Span(t, s, WordChar) = s THEN Fail
    ELSE [end |-> ImplementsEnd(t, ExtendsEnd(t, Span(t, s, WordChar))),
          name |-> Slice(t, s, Span(t, s, WordChar))]

\* interface\s+(\w+) at o
InterfaceCore(t, o) ==
    LET s == WordThenSpaces(t, o, kwInterface) IN
    IF s = NoMatch \/ Span(t, s, WordChar) = s THEN Fail
    ELSE [end |-> Span(t, s, WordChar), name |-> Slice(t, s, Span(t, s, WordChar))]

\* (?:\s*->\s*\w+)? at offset o: the offset after it, o when it is absent
ReturnTypeEnd(t, o) ==
    LET a == Span(t, o, Space)
        r == Span(t, a + Len(arrow), Space)
    IN  IF LitAt(t, a, arrow) /\ Span(t, r, WordChar) > r
        THEN Span(t, r, WordChar)
        ELSE o

\* def\s+(\w+)\s*\([^)]*\)(?:\s*->\s*\w+)? at o
FunctionCore(t, o) ==
    LET s == WordThenSpaces(t, o, kwDef)
        w == Span(t, s, WordChar)
        p == Span(t, w, Space)
    IN  IF s = NoMatch \/ w = s THEN Fail
        ELSE IF ~(p < Len(t) /\ CharAt(t, p) = "(") THEN Fail
        ELSE IF IndexOfChar(t, ")", p + 1) = NoMatch THEN Fail
        ELSE [end |-> ReturnTypeEnd(t, IndexOfChar(t, ")", p + 1) + 1),
              name |-> Slice(t, s, w)]

\* an optional modifier before a core: the modifier is taken when the core
\* matches after it, and given up otherwise
classRegex(t, o) ==
    LET m == ModifierEnd(t, o, <<kwAbstract, kwFinal>>) IN
    IF m # NoMatch /\ ClassCore(t, m).end # NoMatch THEN ClassCore(t, m)
    ELSE ClassCore(t, o)

interfaceRegex(t, o) == InterfaceCore(t, o)

functionRegex(t, o) ==
    LET m == ModifierEnd(t, o, <<kwStatic, kwFinal, kwAbstract>>) IN
    IF m # NoMatch /\ FunctionCore(t, m).end # NoMatch THEN FunctionCore(t, m)
    ELSE FunctionCore(t, o)

\* kw\s+(\w+) at o
KeywordName(t, o, kw) ==
    LET s == WordThenSpaces(t, o, kw) IN
    IF s = NoMatch \/ Span(t, s, WordChar) = s THEN Fail
    ELSE [end |-> Span(t, s, WordChar), name |-> Slice(t, s, Span(t, s, WordChar))]

\* parseDocumentSymbols: /(?:abstract\s+|final\s+)?class\s+(\w+)/g
completionClassRegex(t, o) ==
    LET m == ModifierEnd(t, o, <<kwAbstract, kwFinal>>) IN
    IF m # NoMatch /\ KeywordName(t, m, kwClass).end # NoMatch
    THEN KeywordName(t, m, kwClass)
    ELSE KeywordName(t, o, kwClass)

\* parseDocumentSymbols: /interface\s+(\w+)/g
completionInterfaceRegex(t, o) == KeywordName(t, o, kwInterface)

\* parseDocumentSymbols: /def\s+(\w+)\s*\(/g
completionFunctionRegex(t, o) ==
    LET n == KeywordName(t, o, kwDef)
        p == Span(t, n.end, Space)
    IN  IF n.end = NoMatch THEN Fail
        ELSE IF ~(p < Len(t) /\ CharAt(t, p) = "(") THEN Fail
        ELSE [end |-> p + 1, name |-> n.name]

MatchAt(re, t, o) ==
    CASE re = "class" -> classRegex(t, o)
      [] re = "interface" -> interfaceRegex(t, o)
      [] re = "function" -> functionRegex(t, o)
      [] re = "completionClass" -> completionClassRegex(t, o)
      [] re = "completionInterface" -> completionInterfaceRegex(t, o)
      [] re = "completionFunction" -> completionFunctionRegex(t, o)

\* while ((match = regex.exec(text)) !== null) with the g flag: the
\* matches from lastIndex on, leftmost first, each search resuming at the
\* end of the previous match
RECURSIVE ExecAll(_, _, _)
ExecAll(re, t, lastIndex) ==
    IF lastIndex > Len(t) THEN <<>>
    ELSE IF MatchAt(re, t, lastIndex).end # NoMatch
         THEN <<[index |-> lastIndex,
                 end |-> MatchAt(re, t, lastIndex).end,
                 name |-> MatchAt(re, t, lastIndex).name]>>
              \o ExecAll(re, t, MatchAt(re, t, lastIndex).end)
    ELSE ExecAll(re, t, lastIndex + 1)

---------------------------------------------------------------------------
(* Symbol Scanner                                                          *)

\* new vscode.Range(a, b): the editor API orders the two positions
Range(a, b) ==
    IF PosLE(a, b) THEN [start |-> a, end |-> b] ELSE [start |-> b, end |-> a]

\* the body of each of the three while loops of provideDocumentSymbols
DocumentSymbol(document, match, kind) ==
    LET startPos == positionAt(document, match.index)
        endPos == findBlockEnd(document, startPos)
    IN  [name |-> match.name,
         kind |-> kind,
         offset |-> match.index,
         startPos |-> startPos,
         endPos |-> endPos,
         range |-> Range(startPos, endPos)]

SymbolsOf(document, kind) ==
    LET ms == ExecAll(kind, document, 0) IN
    [k \in 1..Len(ms) |-> DocumentSymbol(document, ms[k], kind)]

\* mutant: the interface loop runs before the class loop
provideDocumentSymbols_InterfacesFirst(document) ==
    SymbolsOf(document, "interface")
        \o SymbolsOf(document, "class")
        \o SymbolsOf(document, "function")

provideDocumentSymbols(document) ==
    SymbolsOf(document, "class")
        \o SymbolsOf(document, "interface")
        \o SymbolsOf(document, "function")

---------------------------------------------------------------------------
(* Completion Provider: the user-defined symbols                           *)

\* new vscode.CompletionItem(match[1], kind)
CompletionItem(label, kind) == [label |-> label, kind |-> kind]

\* one while loop of parseDocumentSymbols
ItemsOf(document, re, kind) ==
    LET ms == ExecAll(re, document, 0) IN
    [k \in 1..Len(ms) |-> CompletionItem(ms[k].name, kind)]

parseDocumentSymbols(document) ==
    ItemsOf(document, "completionClass", "class")
        \o ItemsOf(document, "completionInterface", "interface")
        \o ItemsOf(document, "completionFunction", "function")

---------------------------------------------------------------------------
(* Definition Provider                                                     *)

\* the offset where the run of word characters ending at offset o starts
RECURSIVE RunStart(_, _)
RunStart(t, o) ==
    IF o > 0 /\ CharAt(t, o - 1) \in WordChar THEN RunStart(t, o - 1) ELSE o

\* document.getWordRangeAtPosition: the word the offset is in or at the end
\* of; start = end when there is none
getWordRangeAtPosition(t, o) ==
    [start |-> RunStart(t, o), end |-> Span(t, o, WordChar)]

\* String.prototype.indexOf: the first offset >= o where lit stands in s
RECURSIVE IndexOf(_, _, _)
IndexOf(s, lit, o) ==
    IF o + Len(lit) > Len(s) THEN NoMatch
    ELSE IF LitAt(s, o, lit) THEN o
    ELSE IndexOf(s, lit, o + 1)

IsWordCharAt(t, o) == o >= 0 /\ o < Len(t) /\ CharAt(t, o) \in WordChar

\* the regular expression assertion \b at offset o
WordBoundary(t, o) == IsWordCharAt(t, o - 1) # IsWordCharAt(t, o)

\* kw\s+word at offset o: the offset after word, or NoMatch
KeywordThenWord(t, o, kw, word) ==
    IF WordThenSpaces(t, o, kw) # NoMatch /\ LitAt(t, WordThenSpaces(t, o, kw), word)
    THEN WordThenSpaces(t, o, kw) + Len(word)
    ELSE NoMatch

\* kw\s+word\b at offset o
DeclaredWordEnd(t, o, kw, word) ==
    IF KeywordThenWord(t, o, kw, word) # NoMatch
       /\ WordBoundary(t, KeywordThenWord(t, o, kw, word))
    THEN KeywordThenWord(t, o, kw, word)
    ELSE NoMatch

\* new RegExp(`(?:abstract\\s+|final\\s+)?class\\s+${word}\\b`) at offset o
definitionClassRegex(word, t, o) ==
    LET m == ModifierEnd(t, o, <<kwAbstract, kwFinal>>) IN
    IF m # NoMatch /\ DeclaredWordEnd(t, m, kwClass, word) # NoMatch
    THEN DeclaredWordEnd(t, m, kwClass, word)
    ELSE DeclaredWordEnd(t, o, kwClass, word)

\* new RegExp(`interface\\s+${word}\\b`) at offset o
definitionInterfaceRegex(word, t, o) == DeclaredWordEnd(t, o, kwInterface, word)

\* new RegExp(`def\\s+${word}\\s*\\(`) at offset o
methodRegex(word, t, o) ==
    LET e == KeywordThenWord(t, o, kwDef, word) IN
    IF e # NoMatch /\ Span(t, e, Space) < Len(t) /\ CharAt(t, Span(t, e, Space)) = "("
    THEN Span(t, e, Space) + 1
    ELSE NoMatch

DefinitionMatchAt(re, word, t, o) ==
    CASE re = "class" -> definitionClassRegex(word, t, o)
      [] re = "interface" -> definitionInterfaceRegex(word, t, o)
      [] re = "function" -> methodRegex(word, t, o)

\* regex.exec(text) returned null
NoExec == [index |-> NoMatch, end |-> NoMatch]

\* one regex.exec(text): the leftmost match at or after lastIndex
RECURSIVE Exec(_, _, _, _)
Exec(re, word, t, lastIndex) ==
    IF lastIndex > Len(t) THEN NoExec
    ELSE IF DefinitionMatchAt(re, word, t, lastIndex) # NoMatch
         THEN [index |-> lastIndex, end |-> DefinitionMatchAt(re, word, t, lastIndex)]
    ELSE Exec(re, word, t, lastIndex + 1)

\* document.positionAt(match.index + match[0].indexOf(word))
LocationOf(document, word, match) ==
    <<positionAt(document,
        match.index + IndexOf(Slice(document, match.index, match.end), word, 0))>>

\* provideDefinition for the position at offset o: the sequence of its
\* locations, empty for undefined
provideDefinition(document, o) ==
    LET wordRange == getWordRangeAtPosition(document, o)
        word == Slice(document, wordRange.start, wordRange.end)
    IN  IF wordRange.start = wordRange.end THEN <<>>
        ELSE IF Exec("class", word, document, 0) # NoExec
             THEN LocationOf(document, word, Exec("class", word, document, 0))
        ELSE IF Exec("interface", word, document, 0) # NoExec
             THEN LocationOf(document, word, Exec("interface", word, document, 0))
        ELSE IF Exec("function", word, document, 0) # NoExec
             THEN LocationOf(document, word, Exec("function", word, document, 0))
        ELSE <<>>

---------------------------------------------------------------------------
(* Shadow Detector                                                         *)

PYTHON_BUILTINS == {
    <<"a", "b", "s">>,
    <<"a", "i", "t", "e", "r">>,
    <<"a", "l", "l">>,
    <<"a", "n", "e", "x", "t">>,
    <<"a", "n", "y">>,
    <<"a", "s", "c", "i", "i">>,
    <<"b", "i", "n">>,
    <<"b", "o", "o", "l">>,
    <<"b", "r", "e", "a", "k", "p", "o", "i", "n", "t">>,
    <<"b", "y", "t", "e", "a", "r", "r", "a", "y">>,
    <<"b", "y", "t", "e", "s">>,
    <<"c", "a", "l", "l", "a", "b", "l", "e">>,
    <<"c", "h", "r">>,
    <<"c", "l", "a", "s", "s", "m", "e", "t", "h", "o", "d">>,
    <<"c", "o", "m", "p", "i", "l", "e">>,
    <<"c", "o", "m", "p", "l", "e", "x">>,
    <<"d", "e", "l", "a", "t", "t", "r">>,
    <<"d", "i", "c", "t">>,
    <<"d", "i", "r">>,
    <<"d", "i", "v", "m", "o", "d">>,
    <<"e", "n", "u", "m", "e", "r", "a", "t", "e">>,
    <<"e", "v", "a", "l">>,
    <<"e", "x", "e", "c">>,
    <<"f", "i", "l", "t", "e", "r">>,
    <<"f", "l", "o", "a", "t">>,
    <<"f", "o", "r", "m", "a", "t">>,
    <<"f", "r", "o", "z", "e", "n", "s", "e", "t">>,
    <<"g", "e", "t", "a", "t", "t", "r">>,
    <<"g", "l", "o", "b", "a", "l", "s">>,
    <<"h", "a", "s", "a", "t", "t", "r">>,
    <<"h", "a", "s", "h">>,
    <<"h", "e", "l", "p">>,
    <<"h", "e", "x">>,
    <<"i", "d">>,
    <<"i", "n", "p", "u", "t">>,
    <<"i", "n", "t">>,
    <<"i", "s", "i", "n", "s", "t", "a", "n", "c", "e">>,
    <<"i", "s", "s", "u", "b", "c", "l", "a", "s", "s">>,
    <<"i", "t", "e", "r">>,
    <<"l", "e", "n">>,
    <<"l", "i", "s", "t">>,
    <<"l", "o", "c", "a", "l", "s">>,
    <<"m", "a", "p">>,
    <<"m", "a", "x">>,
    <<"m", "e", "m", "o", "r", "y", "v", "i", "e", "w">>,
    <<"m", "i", "n">>,
    <<"n", "e", "x", "t">>,
    <<"o", "b", "j", "e", "c", "t">>,
    <<"o", "c", "t">>,
    <<"o", "p", "e", "n">>,
    <<"o", "r", "d">>,
    <<"p", "o", "w">>,
    <<"p", "r", "i", "n", "t">>,
    <<"p", "r", "o", "p", "e", "r", "t", "y">>,
    <<"r", "a", "n", "g", "e">>,
    <<"r", "e", "p", "r">>,
    <<"r", "e", "v", "e", "r", "s", "e", "d">>,
    <<"r", "o", "u", "n", "d">>,
    <<"s", "e", "t">>,
    <<"s", "e", "t", "a", "t", "t", "r">>,
    <<"s", "l", "i", "c", "e">>,
    <<"s", "o", "r", "t", "e", "d">>,
    <<"s", "t", "a", "t", "i", "c", "m", "e", "t", "h", "o", "d">>,
    <<"s", "t", "r">>,
    <<"s", "u", "m">>,
    <<"s", "u", "p", "e", "r">>,
    <<"t", "u", "p", "l", "e">>,
    <<"t", "y", "p", "e">>,
    <<"v", "a", "r", "s">>,
    <<"z", "i", "p">>,
    <<"_", "_", "i", "m", "p", "o", "r", "t", "_", "_">> }

\* String.prototype.trim: the offset where trailing white space starts
RECURSIVE TrimEnd(_, _)
TrimEnd(s, e) ==
    IF e > 0 /\ CharAt(s, e - 1) \in Space THEN TrimEnd(s, e - 1) ELSE e

Trim(s) ==
    IF Span(s, 0, Space) >= Len(s) THEN <<>>
    ELSE Slice(s, Span(s, 0, Space), TrimEnd(s, Len(s)))

StartsWith(s, lit) == LitAt(s, 0, lit)

EndsWith(s, lit) == LitAt(s, Len(s) - Len(lit), lit)

Includes(s, lit) == \E o \in 0..Len(s) : LitAt(s, o, lit)

\* (?:(?:static|final|abstract)\s+)* at offset o: the offset after the
\* last modifier
RECURSIVE ModifiersEnd(_, _)
ModifiersEnd(t, o) ==
    IF ModifierEnd(t, o, <<kwStatic, kwFinal, kwAbstract>>) # NoMatch
    THEN ModifiersEnd(t, ModifierEnd(t, o, <<kwStatic, kwFinal, kwAbstract>>))
    ELSE o

\* def\s+(\w+)\s*\( at offset o
DefHead(t, o) ==
    LET s == WordThenSpaces(t, o, kwDef)
        w == Span(t, s, WordChar)
        p == Span(t, w, Space)
    IN  IF s = NoMatch \/ w = s THEN Fail
        ELSE IF ~(p < Len(t) /\ CharAt(t, p) = "(") THEN Fail
        ELSE [end |-> p + 1, name |-> Slice(t, s, w)]

\* trimmedLine.match(/^(?:(?:static|final|abstract)\s+)*def\s+(\w+)\s*\(/)
functionDefMatch(trimmedLine) == DefHead(trimmedLine, ModifiersEnd(trimmedLine, 0))

\* /(\w+)\s*=/ tried at offset o
AssignmentAt(t, o) ==
    LET w == Span(t, o, WordChar)
        e == Span(t, w, Space)
    IN  IF w > o /\ e < Len(t) /\ CharAt(t, e) = "="
        THEN [end |-> e + 1, name |-> Slice(t, o, w)]
        ELSE Fail

\* mutant: the pattern without its ^ anchor, /(\w+)\s*=/, matches leftmost
RECURSIVE AssignmentFrom(_, _)
AssignmentFrom(t, o) ==
    IF o >= Len(t) THEN Fail
    ELSE IF AssignmentAt(t, o).end # NoMatch THEN AssignmentAt(t, o)
    ELSE AssignmentFrom(t, o + 1)

assignmentMatch_Unanchored(trimmedLine) == AssignmentFrom(trimmedLine, 0)

\* trimmedLine.match(/^(\w+)\s*=/)
assignmentMatch(trimmedLine) == AssignmentAt(trimmedLine, 0)

\* mutant: the guard against comparisons forgets '<='
NoComparison_WithoutLessEqual(trimmedLine) ==
    /\ ~Includes(trimmedLine, <<"=", "=">>)
    /\ ~Includes(trimmedLine, <<"!", "=">>)
    /\ ~Includes(trimmedLine, <<">", "=">>)

NoComparison(trimmedLine) ==
    /\ ~Includes(trimmedLine, <<"=", "=">>)
    /\ ~Includes(trimmedLine, <<"!", "=">>)
    /\ ~Includes(trimmedLine, <<"<", "=">>)
    /\ ~Includes(trimmedLine, <<">", "=">>)

Override(name, line, type) == [name |-> name, line |-> line, type |-> type]

\* the body of the for loop of detectBuiltinOverrides, for lines[i]
OverridesOfLine(line, i) ==
    LET trimmedLine == Trim(line)
        f == functionDefMatch(trimmedLine)
        a == assignmentMatch(trimmedLine)
    IN  IF \/ trimmedLine = <<>>
           \/ StartsWith(trimmedLine, <<"#">>)
           \/ StartsWith(trimmedLine, <<"/", "/">>)
        THEN <<>>
        ELSE (IF f.end # NoMatch /\ f.name \in PYTHON_BUILTINS
              THEN <<Override(f.name, i + 1, "function")>> ELSE <<>>)
             \o
             (IF a.end # NoMatch /\ NoComparison(trimmedLine)
                    /\ a.name \in PYTHON_BUILTINS
              THEN <<Override(a.name, i + 1, "assignment")>> ELSE <<>>)

RECURSIVE OverridesFrom(_, _)
OverridesFrom(lines, i) ==
    IF i >= Len(lines) THEN <<>>
    ELSE OverridesOfLine(lines[i + 1], i) \o OverridesFrom(lines, i + 1)

detectBuiltinOverrides(document) == OverridesFrom(Lines(document), 0)

---------------------------------------------------------------------------
(* Diagnostic Generator                                                    *)

\* the documents of the editor, and the language of each
Uris == {"a.spc", "notes.txt"}

languageId(uri) == IF uri = "a.spc" THEN "spice" ELSE "plaintext"

\* mutant: ':' is missing from the accepted line endings
VALID_LINE_ENDINGS_WithoutColon == {<<";">>, <<"{">>, <<"}">>}

VALID_LINE_ENDINGS == {<<";">>, <<":">>, <<"{">>, <<"}">>}

\* new vscode.Diagnostic(new vscode.Range(i, lastChar, i, lastChar + 1), ...)
Diagnostic(i, lastChar) ==
    [range |-> Range(Position(i, lastChar), Position(i, lastChar + 1)),
     message |-> "Statement should end with a semicolon",
     severity |-> "Warning",
     code |-> "spice-missing-semicolon"]

\* the body of the for loop of updateDiagnostics, for lines[i]
DiagnosticsOfLine(line, i) ==
    LET no_spaces == Trim(line) IN
    IF no_spaces = <<>> THEN <<>>
    ELSE IF ~(\E ending \in VALID_LINE_ENDINGS : EndsWith(no_spaces, ending))
    THEN <<Diagnostic(i, Len(line) - 1)>>
    ELSE <<>>

RECURSIVE DiagnosticsFrom(_, _)
DiagnosticsFrom(lines, i) ==
    IF i >= Len(lines) THEN <<>>
    ELSE DiagnosticsOfLine(lines[i + 1], i) \o DiagnosticsFrom(lines, i + 1)

\* mutant: the new diagnostics are added to the ones already published
updateDiagnostics_Appending(uri, document) ==
    IF ~enableDiagnostics THEN diagnosticCollection
    ELSE [diagnosticCollection EXCEPT ![uri] =
            [set |-> TRUE,
             diagnostics |-> diagnosticCollection[uri].diagnostics
                                \o DiagnosticsFrom(Lines(document), 0)]]

\* updateDiagnostics(document, diagnosticCollection): the collection after it
updateDiagnostics(uri, document) ==
    IF ~enableDiagnostics THEN diagnosticCollection
    ELSE [diagnosticCollection EXCEPT ![uri] =
            [set |-> TRUE, diagnostics |-> DiagnosticsFrom(Lines(document), 0)]]

\* the onDidOpenTextDocument and onDidChangeTextDocument listeners
OnDocumentEvent(uri, document) ==
    IF languageId(uri) = "spice" THEN updateDiagnostics(uri, document)
    ELSE diagnosticCollection

---------------------------------------------------------------------------
(* Bounds and inputs                                                       *)

MaxBlockPieces == 5

BlockPieces == {<<"{">>, <<"}">>, <<"a">>, <<"\n">>}

MaxScanPieces == 3

\* the pieces a scanned document is typed from: whole declarations with a
\* balanced body, a declaration without a body, a declaration being typed,
\* stray braces, indentation
ScanPieces == {
    [kind |-> "decl", s |-> <<"c", "l", "a", "s", "s", " ", "A", " ", "{", "\n", "}", "\n">>],
    [kind |-> "decl", s |-> <<"i", "n", "t", "e", "r", "f", "a", "c", "e", " ", "I", " ", "{", "\n", "}", "\n">>],
    [kind |-> "decl", s |-> <<"d", "e", "f", " ", "f", "(", "x", ")", " ", "-", ">", " ", "N", "o", "n", "e", " ", "{", "\n", "}", "\n">>],
    [kind |-> "decl", s |-> <<"f", "i", "n", "a", "l", " ", "c", "l", "a", "s", "s", " ", "M", "y", "i", "n", "t", "e", "r", "f", "a", "c", "e", " ", "e", "x", "t", "e", "n", "d", "s", " ", "B", " ", "{", "\n", "}", "\n">>],
    [kind |-> "raw", s |-> <<"a", "b", "s", "t", "r", "a", "c", "t", " ", "d", "e", "f", " ", "g", "(", ")", ";">>],
    [kind |-> "raw", s |-> <<"d", "e", "f", " ", "h", "(", "s", "e", "l", "f">>],
    [kind |-> "raw", s |-> <<"{">>],
    [kind |-> "raw", s |-> <<"}">>],
    [kind |-> "space", s |-> <<"\t">>] }

MaxDefPieces == 3

\* the pieces a document queried for definitions is typed from: declarations
\* of names that are and are not part of a keyword, and uses of the names
DefPieces == {
    <<"d", "e", "f", " ", "f", "(", "x", ")", " ", "{", "}", "\n">>,
    <<"c", "l", "a", "s", "s", " ", "a", " ", "{", "}", "\n">>,
    <<"i", "n", "t", "e", "r", "f", "a", "c", "e", " ", "f", " ", "{", "}", "\n">>,
    <<"f", "i", "n", "a", "l", " ", "c", "l", "a", "s", "s", " ", "f", " ", "{", "}", "\n">>,
    <<"c", "l", "a", "s", "s", " ", "S", "h", "a", "p", "e", " ", "{", "}", "\n">>,
    <<"i", "n", "t", "e", "r", "f", "a", "c", "e", " ", "S", "h", "a", "p", "e", "s", " ", "{", "}", "\n">>,
    <<"d", "e", "f", " ", "d", "r", "a", "w", "(", ")", " ", "{", "}", "\n">>,
    <<"f", "(", "a", ")", ";", " ", "d", "r", "a", "w", "(", ")", ";", "\n">> }

MaxShadowPieces == 3

\* the pieces a document checked for shadowed built-ins is typed from
ShadowPieces == {
    <<"d", "e", "f", " ">>,
    <<"s", "t", "a", "t", "i", "c", " ">>,
    <<"p", "r", "i", "n", "t", "(", "x", ")", ":">>,
    <<"p", "r", "i", "n", "t", "(", "l", "e", "n">>,
    <<"l", "e", "n">>,
    <<"x">>,
    <<" ", "=", " ", "5", ";">>,
    <<" ", "<", "=", " ", "5", ";">>,
    <<"=", "=">>,
    <<"!", "=">>,
    <<">", "=">>,
    <<"\n", " ", " ">>,
    <<"#">>,
    <<"/", "/">> }

MaxDiagPieces == 3

\* the pieces an edited document is typed from
DiagPieces == {
    <<"r", "e", "t", "u", "r", "n", " ", "1">>,
    <<";">>, <<":">>, <<"{">>, <<"}">>, <<" ">>, <<"\n">> }

MaxInvocations == 3

TextDefPrint == <<"d", "e", "f", " ", "p", "r", "i", "n", "t", "(", "x", ")", ":">>
TextLenAssign == <<"l", "e", "n", " ", "=", " ", "5", ";">>
TextCompare == <<"x", " ", "<", "=", " ", "5", ";">>

\* the texts of the spice document the commands are invoked on: with a
\* shadowing function, with a shadowing assignment, with neither
CommandTexts == {TextDefPrint, TextLenAssign, TextCompare}

NoBlock == [called |-> FALSE, start |-> Position(0, 0), end |-> Position(0, 0)]
NoOutline == [done |-> FALSE, symbols |-> <<>>]
NoShadow == [done |-> FALSE, overrides |-> <<>>]
NoDefinition == [done |-> FALSE, word |-> <<>>, locations |-> <<>>]
NoCompletion == [done |-> FALSE, items |-> <<>>]

NoRun == [command |-> "none", saved |-> FALSE, shouldCheckOverrides |-> FALSE,
          overrides |-> <<>>, answer |-> "none", launched |-> "none"]

NoMessage == [kind |-> "none", about |-> "none"]

---------------------------------------------------------------------------
(* Compile, run and check-syntax commands                                  *)

Message(kind, about) == [kind |-> kind, about |-> about]

\* mutant: only an explicit 'Cancel' aborts, a dismissed dialog continues
shouldContinue_UnlessCancel(result) == result # "Cancel"

\* what showBuiltinOverrideWarning resolves to for the dialog's result
shouldContinue(result) ==
    IF result = "Don't Show This Again" THEN TRUE
    ELSE result = "Continue Anyway"

\* the external process or terminal each command launches
Launches(command) ==
    CASE command = "compile" -> "compiler"
      [] command = "run" -> "terminal"
      [] command = "checkSyntax" -> "checker"

\* the rest of a command once it may proceed: compile and check-syntax
\* await the external process, run creates the terminal and returns
Launch(r) ==
    /\ run' = [r EXCEPT !.launched = Launches(r.command)]
    /\ pc' = IF r.command = "run" THEN "idle" ELSE "exec"

\* compileSpiceFile, runSpiceFile, checkSyntax up to await document.save()
CommandBegin ==
    \E command \in {"compile", "run", "checkSyntax"} :
        /\ pc = "idle"
        /\ invocations < MaxInvocations
        /\ invocations' = invocations + 1
        /\ run' = [NoRun EXCEPT !.command = command]
        /\ IF activeEditor = "none" \/ languageId(activeEditor) # "spice"
           THEN /\ message' = Message("error", "No Spice file is currently open")
                /\ pc' = "idle"
           ELSE /\ message' = message
                /\ pc' = "save"
        /\ UNCHANGED <<scanVars, diagVars, activeEditor, checkBuiltinOverrides,
                       lastAnswer>>

\* document.save() settles, with true or false, and the command goes on:
\* compile and run check for overrides and may open the warning dialog
SaveSettled ==
    \E saved \in BOOLEAN :
        /\ pc = "save"
        /\ LET overrides == detectBuiltinOverrides(documents[activeEditor].text)
               r == [run EXCEPT !.saved = saved]
           IN  IF r.command = "checkSyntax" THEN Launch(r)
               ELSE IF checkBuiltinOverrides /\ overrides # <<>>
               THEN /\ run' = [r EXCEPT !.shouldCheckOverrides = TRUE,
                                        !.overrides = overrides]
                    /\ pc' = "dialog"
               ELSE Launch([r EXCEPT !.shouldCheckOverrides = checkBuiltinOverrides,
                                     !.overrides = IF checkBuiltinOverrides
                                                   THEN overrides ELSE <<>>])
        /\ UNCHANGED <<scanVars, diagVars, activeEditor, checkBuiltinOverrides,
                       message, invocations, lastAnswer>>

\* showBuiltinOverrideWarning: the modal dialog is answered or dismissed
WarningAnswered ==
    \E result \in {"Continue Anyway", "Cancel", "Don't Show This Again", "undefined"} :
        /\ pc = "dialog"
        /\ LET r == [run EXCEPT !.answer = result] IN
           IF result = "Don't Show This Again"
           THEN /\ run' = r
                /\ pc' = "update"
           ELSE IF shouldContinue(result) THEN Launch(r)
           ELSE /\ run' = r
                /\ pc' = "idle"
        /\ lastAnswer' = result
        /\ UNCHANGED <<scanVars, diagVars, activeEditor, checkBuiltinOverrides,
                       message, invocations>>

\* mutant: the answer "Don't Show This Again" lets the command go on but
\* the setting is not written
ConfigUpdateSettled_NotWritten ==
    /\ pc = "update"
    /\ message' = Message("info", "Built-in override warnings have been disabled")
    /\ Launch(run)
    /\ UNCHANGED <<scanVars, diagVars, activeEditor, checkBuiltinOverrides,
                   invocations, lastAnswer>>

\* the configuration update of "Don't Show This Again" settles, the
\* warning resolves to true and the command goes on
ConfigUpdateSettled ==
    /\ pc = "update"
    /\ checkBuiltinOverrides' = FALSE
    /\ message' = Message("info", "Built-in override warnings have been disabled")
    /\ Launch(run)
    /\ UNCHANGED <<scanVars, diagVars, activeEditor, invocations, lastAnswer>>

\* execAsync settles: it resolves without stderr, resolves with stderr, or throws
ExecSettled ==
    \E outcome \in {"ok", "stderr", "throw"} :
        /\ pc = "exec"
        /\ pc' = "idle"
        /\ message' =
             IF outcome = "ok"
             THEN Message("info", IF run.command = "compile"
                                  THEN "Successfully compiled" ELSE "Syntax check passed!")
             ELSE IF outcome = "stderr"
             THEN Message("error", IF run.command = "compile"
                                   THEN "Compilation error" ELSE "Syntax error")
             ELSE Message("error", IF run.command = "compile"
                                   THEN "Failed to compile" ELSE "Syntax check failed")
        /\ UNCHANGED <<scanVars, diagVars, activeEditor, checkBuiltinOverrides,
                       run, invocations, lastAnswer>>

enableBuiltinOverrideCheck ==
    /\ pc = "idle"
    /\ invocations < MaxInvocations
    /\ invocations' = invocations + 1
    /\ checkBuiltinOverrides' = TRUE
    /\ message' = Message("info", "Built-in override warnings have been re-enabled.")
    /\ lastAnswer' = IF lastAnswer = "none" THEN "none" ELSE "enabled"
    /\ UNCHANGED <<scanVars, diagVars, activeEditor, pc, run>>

\* the user replaces the text of the active spice document between two
\* commands; onDidChangeTextDocument publishes its diagnostics
EditActiveDocument ==
    \E t \in CommandTexts :
        /\ pc = "idle"
        /\ activeEditor # "none"
        /\ languageId(activeEditor) = "spice"
        /\ t # documents[activeEditor].text
        /\ documents' = [documents EXCEPT ![activeEditor].text = t]
        /\ diagnosticCollection' = OnDocumentEvent(activeEditor, t)
        /\ UNCHANGED <<scanVars, enableDiagnostics, cmdVars>>

---------------------------------------------------------------------------
(* Specification SpecBlock: a document of braces is typed, and the         *)
(* resolver is called from any position of it                              *)

\* no text typed and no analyser called yet
AnalysersIdle ==
    /\ text = <<>>
    /\ typed = 0
    /\ block = NoBlock
    /\ outline = NoOutline
    /\ decls = <<>>
    /\ wellFormed = TRUE
    /\ shadow = NoShadow
    /\ definition = NoDefinition
    /\ completion = NoCompletion

\* no document opened yet, no diagnostics published
EditorIdle ==
    /\ documents = [d \in Uris |-> [open |-> FALSE, text |-> <<>>]]
    /\ diagnosticCollection = [d \in Uris |-> [set |-> FALSE, diagnostics |-> <<>>]]
    /\ enableDiagnostics = TRUE

\* no command invoked yet
CommandsIdle ==
    /\ activeEditor = "none"
    /\ checkBuiltinOverrides = TRUE
    /\ pc = "idle"
    /\ run = NoRun
    /\ message = NoMessage
    /\ invocations = 0
    /\ lastAnswer = "none"

InitBlock == AnalysersIdle /\ EditorIdle /\ CommandsIdle

TypeBlock ==
    \E p \in BlockPieces :
        /\ typed < MaxBlockPieces
        /\ text' = text \o p
        /\ typed' = typed + 1
        /\ block' = NoBlock
        /\ UNCHANGED <<outline, decls, wellFormed, shadow, diagVars, cmdVars,
                       definition, completion>>

CallFindBlockEnd ==
    \E o \in 0..Len(text) :
        /\ block' = [called |-> TRUE,
                     start |-> positionAt(text, o),
                     end |-> findBlockEnd(text, positionAt(text, o))]
        /\ UNCHANGED <<text, typed, outline, decls, wellFormed, shadow, diagVars, cmdVars,
                       definition, completion>>

NextBlock == TypeBlock \/ CallFindBlockEnd

SpecBlock == InitBlock /\ [][NextBlock]_vars

---------------------------------------------------------------------------
(* Specification SpecScan: a document is typed piece by piece and the      *)
(* Symbol Scanner is run on it, for the outline and for completion.        *)
(* decls records where each whole declaration was typed and where its own  *)
(* closing brace is.                                                       *)

InitScan == AnalysersIdle /\ EditorIdle /\ CommandsIdle

TypeScan ==
    \E p \in ScanPieces :
        /\ typed < MaxScanPieces
        /\ text' = text \o p.s
        /\ typed' = typed + 1
        /\ outline' = NoOutline
        /\ completion' = NoCompletion
        /\ decls' = IF p.kind = "decl"
                    THEN Append(decls, [start |-> Len(text),
                                        close |-> Len(text) + IndexOfChar(p.s, "}", 0)])
                    ELSE decls
        /\ wellFormed' = (wellFormed /\ p.kind # "raw")
        /\ UNCHANGED <<block, shadow, definition, diagVars, cmdVars>>

CallProvideDocumentSymbols ==
    /\ ~outline.done
    /\ outline' = [done |-> TRUE, symbols |-> provideDocumentSymbols(text)]
    /\ UNCHANGED <<text, typed, block, decls, wellFormed, shadow, diagVars, cmdVars,
                       definition, completion>>

\* provideCompletionItems seeds the user-defined symbols
CallParseDocumentSymbols ==
    /\ ~completion.done
    /\ completion' = [done |-> TRUE, items |-> parseDocumentSymbols(text)]
    /\ UNCHANGED <<text, typed, block, outline, decls, wellFormed, shadow,
                   definition, diagVars, cmdVars>>

NextScan == TypeScan \/ CallProvideDocumentSymbols \/ CallParseDocumentSymbols

SpecScan == InitScan /\ [][NextScan]_vars

---------------------------------------------------------------------------
(* Specification SpecDef: a document is typed piece by piece and           *)
(* go-to-definition is asked at a position of it                           *)

InitDef == AnalysersIdle /\ EditorIdle /\ CommandsIdle

TypeDef ==
    \E p \in DefPieces :
        /\ typed < MaxDefPieces
        /\ text' = text \o p
        /\ typed' = typed + 1
        /\ definition' = NoDefinition
        /\ UNCHANGED <<block, outline, decls, wellFormed, shadow, completion,
                       diagVars, cmdVars>>

CallProvideDefinition ==
    \E o \in 0..Len(text) :
        /\ ~definition.done
        /\ definition' =
             [done |-> TRUE,
              word |-> Slice(text, getWordRangeAtPosition(text, o).start,
                                   getWordRangeAtPosition(text, o).end),
              locations |-> provideDefinition(text, o)]
        /\ UNCHANGED <<text, typed, block, outline, decls, wellFormed, shadow,
                       completion, diagVars, cmdVars>>

NextDef == TypeDef \/ CallProvideDefinition

SpecDef == InitDef /\ [][NextDef]_vars

---------------------------------------------------------------------------
(* Specification SpecShadow: a document is typed piece by piece and the    *)
(* Shadow Detector is run on it                                            *)

InitShadow == AnalysersIdle /\ EditorIdle /\ CommandsIdle

TypeShadow ==
    \E p \in ShadowPieces :
        /\ typed < MaxShadowPieces
        /\ text' = text \o p
        /\ typed' = typed + 1
        /\ shadow' = NoShadow
        /\ UNCHANGED <<block, outline, decls, wellFormed, diagVars, cmdVars,
                       definition, completion>>

CallDetectBuiltinOverrides ==
    /\ ~shadow.done
    /\ shadow' = [done |-> TRUE, overrides |-> detectBuiltinOverrides(text)]
    /\ UNCHANGED <<text, typed, block, outline, decls, wellFormed, diagVars, cmdVars,
                       definition, completion>>

NextShadow == TypeShadow \/ CallDetectBuiltinOverrides

SpecShadow == InitShadow /\ [][NextShadow]_vars

---------------------------------------------------------------------------
(* Specification SpecDiag: documents are opened and edited, the setting    *)
(* enableDiagnostics is switched, and the listeners publish diagnostics    *)

InitDiag == AnalysersIdle /\ EditorIdle /\ CommandsIdle

\* onDidOpenTextDocument: a document is opened, empty or with a first piece
OpenTextDocument ==
    \E uri \in Uris : \E content \in {<<>>} \cup DiagPieces :
        /\ ~documents[uri].open
        /\ content # <<>> => typed < MaxDiagPieces
        /\ typed' = IF content = <<>> THEN typed ELSE typed + 1
        /\ documents' = [documents EXCEPT ![uri] = [open |-> TRUE, text |-> content]]
        /\ diagnosticCollection' = OnDocumentEvent(uri, content)
        /\ UNCHANGED <<text, block, outline, decls, wellFormed, shadow,
                       enableDiagnostics, cmdVars,
                       definition, completion>>

\* onDidChangeTextDocument: a piece is typed at the end of an open document
ChangeTextDocument ==
    \E uri \in Uris : \E p \in DiagPieces :
        /\ documents[uri].open
        /\ typed < MaxDiagPieces
        /\ typed' = typed + 1
        /\ documents' = [documents EXCEPT ![uri].text = @ \o p]
        /\ diagnosticCollection' = OnDocumentEvent(uri, documents[uri].text \o p)
        /\ UNCHANGED <<text, block, outline, decls, wellFormed, shadow,
                       enableDiagnostics, cmdVars,
                       definition, completion>>

\* the user switches the setting spice.enableDiagnostics
SetEnableDiagnostics ==
    /\ enableDiagnostics' = ~enableDiagnostics
    /\ UNCHANGED <<scanVars, documents, diagnosticCollection, cmdVars>>

NextDiag == OpenTextDocument \/ ChangeTextDocument \/ SetEnableDiagnostics

SpecDiag == InitDiag /\ [][NextDiag]_vars

---------------------------------------------------------------------------
(* Specification SpecCmd: the documents are open, one of them (or none)    *)
(* in the active editor, the commands are invoked one after the other and  *)
(* the active document is edited between them                              *)

InitCmd ==
    /\ AnalysersIdle
    /\ \E t \in CommandTexts :
        documents = [d \in Uris |->
            [open |-> TRUE, text |-> IF languageId(d) = "spice" THEN t ELSE <<>>]]
    /\ enableDiagnostics = TRUE
    /\ diagnosticCollection = [d \in Uris |->
            IF languageId(d) = "spice"
            THEN [set |-> TRUE, diagnostics |-> DiagnosticsFrom(Lines(documents[d].text), 0)]
            ELSE [set |-> FALSE, diagnostics |-> <<>>]]
    /\ activeEditor \in Uris \cup {"none"}
    /\ checkBuiltinOverrides \in BOOLEAN
    /\ pc = "idle"
    /\ run = NoRun
    /\ message = NoMessage
    /\ invocations = 0
    /\ lastAnswer = "none"

NextCmd ==
    \/ CommandBegin
    \/ SaveSettled
    \/ WarningAnswered
    \/ ConfigUpdateSettled
    \/ ExecSettled
    \/ enableBuiltinOverrideCheck
    \/ EditActiveDocument

SpecCmd == InitCmd /\ [][NextCmd]_vars

---------------------------------------------------------------------------
(* Claims about the Block Boundary Resolver (checked under SpecBlock)      *)

StartOffsets == 0..Len(text)

\* the offset of the first '{' at or after offset o, or NoMatch
FirstOpen(t, o) == IndexOfChar(t, "{", o)

\* the brace depth at offset m, counting the '{' at offset b as depth 1
DepthFrom(t, b, m) ==
    Cardinality({k \in b..m : CharAt(t, k) = "{"})
        - Cardinality({k \in b..m : CharAt(t, k) = "}"})

\* the offsets of the '}' that close the block opened at offset b
Closers(t, b) == {m \in (b + 1)..(Len(t) - 1) : DepthFrom(t, b, m) = 0}

MatchingClose(t, b) == CHOOSE m \in Closers(t, b) : \A n \in Closers(t, b) : m <= n

EndOfDocument(t) ==
    Position(Len(Lines(t)) - 1, Len(Lines(t)[Len(Lines(t))]))

\* the offset the last findBlockEnd call started from
CalledOffset ==
    CHOOSE o \in StartOffsets : positionAt(text, o) = block.start

\* C2: the first '{' at or after the start position counts as depth 1
\* whatever '}' were scanned before it, and when that '{' has a matching
\* '}' the resolver returns the position just after that '}'.
C2_FirstBraceSeedsDepthOne ==
    block.called =>
        LET b == FirstOpen(text, CalledOffset) IN
        (b # NoMatch /\ Closers(text, b) # {}) =>
            block.end = positionAt(text, MatchingClose(text, b) + 1)

\* C3: when no block is opened at or after the start position, or the
\* block opened there is never closed, the resolver returns the final
\* position of the document (the end of its last line), which is not
\* before any character of the document.
C3_UnclosedBlockEndsAtEndOfDocument ==
    block.called =>
        LET b == FirstOpen(text, CalledOffset) IN
        (b = NoMatch \/ Closers(text, b) = {}) =>
            /\ block.end = EndOfDocument(text)
            /\ \A o \in 0..Len(text) : PosLE(positionAt(text, o), block.end)

---------------------------------------------------------------------------
(* Claims about the Symbol Scanner (checked under SpecScan)                *)

Symbols == outline.symbols

KindRank(kind) ==
    CASE kind = "class" -> 1 [] kind = "interface" -> 2 [] kind = "function" -> 3

\* strictly before
PosLT(p, q) == PosLE(p, q) /\ p # q

\* C1 as stated: the returned symbols are in the order of their
\* declaration offsets, whatever kinds of declaration the text mixes.
C1_OrderedByDeclarationOffset ==
    outline.done =>
        \A i, j \in 1..Len(Symbols) :
            i < j => PosLE(Symbols[i].startPos, Symbols[j].startPos)

\* C1 as amended: the returned symbols are all the classes, then all the
\* interfaces, then all the functions, and the symbols of one kind are in
\* the order of their declaration offsets.
C1_OrderedByKindThenOffset ==
    outline.done =>
        \A i, j \in 1..Len(Symbols) :
            i < j =>
                \/ KindRank(Symbols[i].kind) < KindRank(Symbols[j].kind)
                \/ /\ Symbols[i].kind = Symbols[j].kind
                   /\ PosLT(Symbols[i].startPos, Symbols[j].startPos)

\* a scan that returned a function declared before a class, the two in
\* the order class, function
C1_Witness ==
    /\ outline.done
    /\ \E i, j \in 1..Len(Symbols) :
        /\ i < j
        /\ Symbols[i].kind = "class"
        /\ Symbols[j].kind = "function"
        /\ PosLT(Symbols[j].startPos, Symbols[i].startPos)

\* C4: a text of N well-formed, non-nested declarations with balanced
\* bodies yields exactly N symbols, each starting at its declaration and
\* ending just after that declaration's own closing brace.
C4_OneSymbolPerDeclaration ==
    (outline.done /\ wellFormed) =>
        /\ Len(Symbols) = Len(decls)
        /\ {<<Symbols[k].startPos, Symbols[k].endPos>> : k \in 1..Len(Symbols)}
             = {<<positionAt(text, decls[k].start),
                  positionAt(text, decls[k].close + 1)>> : k \in 1..Len(decls)}

\* C5: for every symbol, with range.start the match start and range.end
\* the position the resolver returned for that start,
\* range.start <= declaration offset <= range.end.
C5_RangeContainsDeclaration ==
    outline.done =>
        \A k \in 1..Len(Symbols) :
            /\ PosLE(Symbols[k].startPos, positionAt(text, Symbols[k].offset))
            /\ PosLE(positionAt(text, Symbols[k].offset), Symbols[k].endPos)

---------------------------------------------------------------------------
(* Claims about the Shadow Detector (checked under SpecShadow)             *)

\* every character of s at the offsets from..(to - 1) is in S
AllIn(s, from, to, S) == \A k \in from..(to - 1) : CharAt(s, k) \in S

\* s up to offset a is a run of modifiers, each followed by white space
RECURSIVE IsModifiers(_, _)
IsModifiers(s, a) ==
    \/ a = 0
    \/ \E b \in 0..(a - 1) : \E mod \in {kwStatic, kwFinal, kwAbstract} :
        /\ LitAt(s, b, mod)
        /\ b + Len(mod) < a
        /\ AllIn(s, b + Len(mod), a, Space)
        /\ IsModifiers(s, b)

\* s reads: modifiers, 'def', white space, name, optional white space, '('
DefinesFunction(s, name) ==
    \E a \in 0..Len(s) : \E b \in (a + 4)..Len(s) :
        /\ LitAt(s, a, kwDef)
        /\ LitAt(s, b, name)
        /\ AllIn(s, a + 3, b, Space)
        /\ \E d \in (b + Len(name))..(Len(s) - 1) :
            /\ AllIn(s, b + Len(name), d, Space)
            /\ CharAt(s, d) = "("
        /\ IsModifiers(s, a)

\* s reads: name, optional white space, '='
AssignsTo(s, name) ==
    /\ LitAt(s, 0, name)
    /\ \E d \in Len(name)..(Len(s) - 1) :
        /\ AllIn(s, Len(name), d, Space)
        /\ CharAt(s, d) = "="

HasComparison(s) ==
    \E o \in 0..Len(s) : \E c \in {"=", "!", "<", ">"} : LitAt(s, o, <<c, "=">>)

\* the Overrides the claim gives a line: a FunctionDefinition, otherwise
\* an Assignment, otherwise none
ExpectedOfLine(line, n) ==
    LET s == Trim(line)
        fn == IF Includes(s, kwDef)
              THEN {name \in PYTHON_BUILTINS : DefinesFunction(s, name)}
              ELSE {}
        as == {name \in PYTHON_BUILTINS : AssignsTo(s, name)}
    IN  IF s = <<>> \/ s[1] = "#" \/ (Len(s) >= 2 /\ s[1] = "/" /\ s[2] = "/")
        THEN <<>>
        ELSE IF fn # {}
        THEN <<Override(CHOOSE name \in fn : TRUE, n, "function")>>
        ELSE IF as # {} /\ ~HasComparison(s)
        THEN <<Override(CHOOSE name \in as : TRUE, n, "assignment")>>
        ELSE <<>>

RECURSIVE ExpectedOverrides(_, _)
ExpectedOverrides(lines, n) ==
    IF n > Len(lines) THEN <<>>
    ELSE ExpectedOfLine(lines[n], n) \o ExpectedOverrides(lines, n + 1)

C7_AtMostOneOverridePerLine ==
    shadow.done =>
        \A i, j \in 1..Len(shadow.overrides) :
            i # j => shadow.overrides[i].line # shadow.overrides[j].line

\* the detector ran on a line that defines print and also holds an
\* assignment to len, and produced the one FunctionDefinition override
C7_Witness ==
    /\ shadow.done
    /\ Includes(text, <<"l", "e", "n", " ", "=">>)
    /\ shadow.overrides = <<Override(<<"p", "r", "i", "n", "t">>, 1, "function")>>

---------------------------------------------------------------------------
(* Claims about the Diagnostic Generator (checked under SpecDiag)          *)

SpiceUris == {uri \in Uris : languageId(uri) = "spice"}

Terminators == {";", ":", "{", "}"}

\* the lines (0-based) the claim gives a Warning: the trimmed line is not
\* empty and its last character is no terminator
OffendingLines(lines) ==
    {n \in 0..(Len(lines) - 1) :
        /\ Trim(lines[n + 1]) # <<>>
        /\ Trim(lines[n + 1])[Len(Trim(lines[n + 1]))] \notin Terminators}

\* the Warning of line n: one character wide, at the last character
WarningAt(lines, n) ==
    [range |-> [start |-> Position(n, Len(lines[n + 1]) - 1),
                end |-> Position(n, Len(lines[n + 1]))],
     message |-> "Statement should end with a semicolon",
     severity |-> "Warning",
     code |-> "spice-missing-semicolon"]

\* the Warnings of the offending lines, in line order
RECURSIVE WarningsFrom(_, _)
WarningsFrom(lines, n) ==
    IF n >= Len(lines) THEN <<>>
    ELSE (IF n \in OffendingLines(lines) THEN <<WarningAt(lines, n)>> ELSE <<>>)
         \o WarningsFrom(lines, n + 1)

ExpectedDiagnostics(t) == WarningsFrom(Lines(t), 0)

\* an open or change event on uri happens in this step
EventOn(uri) == documents'[uri] # documents[uri]

TextReturn == <<"r", "e", "t", "u", "r", "n", " ", "1">>
TextReturnSemi == <<"r", "e", "t", "u", "r", "n", " ", "1", ";">>

\* C8: an analysis publishes exactly one Warning for every line whose
\* trimmed text is not empty and does not end with ; : { or }, each a
\* one-character range at the last character of its line, and nothing for
\* the other lines; 'return 1' gets one Warning and 'return 1;' none.
C8_OneWarningPerUnterminatedLine ==
    [][\A uri \in SpiceUris :
        (EventOn(uri) /\ enableDiagnostics) =>
            /\ diagnosticCollection'[uri].set
            /\ diagnosticCollection'[uri].diagnostics
                 = ExpectedDiagnostics(documents'[uri].text)
            /\ documents'[uri].text = TextReturn =>
                 Len(diagnosticCollection'[uri].diagnostics) = 1
            /\ documents'[uri].text = TextReturnSemi =>
                 diagnosticCollection'[uri].diagnostics = <<>>]_vars

\* 'return 1' followed by a terminated line was analysed: one Warning, at
\* the last character of the first line
C8_Witness ==
    \E uri \in SpiceUris :
        /\ documents[uri].text = TextReturn \o <<"\n", ";">>
        /\ Len(diagnosticCollection[uri].diagnostics) = 1
        /\ diagnosticCollection[uri].diagnostics[1].range
             = [start |-> Position(0, 7), end |-> Position(0, 8)]

\* the diagnostics stored for uri; none were stored when none were set
Stored(uri) ==
    IF diagnosticCollection[uri].set THEN diagnosticCollection[uri].diagnostics
    ELSE <<>>

\* C9 as stated: after any open and change events and any changes of
\* enableDiagnostics, the diagnostics stored for a spice document are
\* exactly those computed from the text of its most recent event.
C9_StoredIsComputedFromLatestText ==
    \A uri \in SpiceUris :
        documents[uri].open => Stored(uri) = ExpectedDiagnostics(documents[uri].text)

\* C9 as amended: an open or change event on a spice document handled
\* while enableDiagnostics is on replaces the stored diagnostics by
\* exactly those computed from the event's text; an event handled while
\* the setting is off, and any other step, leaves the stored diagnostics
\* as they were.
C9_EventReplacesOnlyWhenEnabled ==
    [][\A uri \in SpiceUris :
        IF EventOn(uri) /\ enableDiagnostics
        THEN diagnosticCollection'[uri] =
                [set |-> TRUE,
                 diagnostics |-> ExpectedDiagnostics(documents'[uri].text)]
        ELSE diagnosticCollection'[uri] = diagnosticCollection[uri]]_vars

\* a Warning of an earlier text was replaced by the empty set of the
\* newer, terminated text
C9_Witness ==
    \E uri \in SpiceUris :
        /\ documents[uri].text = TextReturnSemi
        /\ enableDiagnostics
        /\ diagnosticCollection[uri].set
        /\ diagnosticCollection[uri].diagnostics = <<>>

---------------------------------------------------------------------------
(* Claims about the commands (checked under SpecCmd)                       *)

\* the command in flight had the override check on and found overrides
FoundOverrides ==
    /\ run.command \in {"compile", "run"}
    /\ run.shouldCheckOverrides
    /\ run.overrides # <<>>

\* C10: in compile and run, with checkBuiltinOverrides on and overrides
\* found, the compiler or the terminal is launched only after the answer
\* 'Continue Anyway' or "Don't Show This Again"; after 'Cancel' or a
\* dismissed dialog the command ends with nothing launched and the
\* setting unchanged.
C10_LaunchOnlyAfterConsent ==
    FoundOverrides =>
        /\ run.launched # "none" =>
             run.answer \in {"Continue Anyway", "Don't Show This Again"}
        /\ run.answer \in {"Cancel", "undefined"} =>
             /\ run.launched = "none"
             /\ pc = "idle"
             /\ checkBuiltinOverrides

\* a run command that found overrides was aborted by dismissing the dialog
C10_Witness ==
    /\ FoundOverrides
    /\ run.command = "run"
    /\ run.answer = "undefined"
    /\ run.launched = "none"
    /\ pc = "idle"

\* the Shadow Detector's result for the document in the active editor
ActiveOverrides == detectBuiltinOverrides(documents[activeEditor].text)

\* a compile or run command is about to go on after document.save()
GatedCommandSaved ==
    /\ pc = "save"
    /\ run.command \in {"compile", "run"}

SaveHasSettled ==
    /\ run.command # "none"
    /\ activeEditor # "none"
    /\ languageId(activeEditor) = "spice"
    /\ pc # "save"

\* C12: in compile, run and check-syntax the compiler, the checker or the
\* terminal is launched only after the document was saved successfully;
\* when the save failed, nothing is launched and the user is shown an error
\* message, as for a failed process.
C12_LaunchOnlyAfterSuccessfulSave ==
    /\ run.launched # "none" => run.saved
    /\ (SaveHasSettled /\ ~run.saved) =>
          /\ run.launched = "none"
          /\ message.kind = "error"

---------------------------------------------------------------------------
(* Claims about the Definition Provider (checked under SpecDef)            *)

\* the offsets where the name w stands after the keyword kw and white space
NamesAfter(t, kw, w) ==
    {n \in 0..Len(t) :
        /\ LitAt(t, n, w)
        /\ \E k \in 0..n :
              /\ LitAt(t, k, kw)
              /\ k + Len(kw) < n
              /\ AllIn(t, k + Len(kw), n, Space)}

\* the name offsets of the class and of the interface declarations of w
DeclaredNames(t, kw, w) ==
    {n \in NamesAfter(t, kw, w) : ~IsWordCharAt(t, n + Len(w))}

\* the name offsets of the function declarations of w
FunctionNames(t, w) ==
    {n \in NamesAfter(t, kwDef, w) :
        \E q \in (n + Len(w))..(Len(t) - 1) :
            CharAt(t, q) = "(" /\ AllIn(t, n + Len(w), q, Space)}

Least(S) == CHOOSE n \in S : \A m \in S : n <= m

\* the location the claim gives the word w: the name in the first class
\* declaration of w, else in the first interface declaration, else in the
\* first function declaration, else none
ExpectedDefinition(t, w) ==
    IF DeclaredNames(t, kwClass, w) # {}
    THEN <<positionAt(t, Least(DeclaredNames(t, kwClass, w)))>>
    ELSE IF DeclaredNames(t, kwInterface, w) # {}
    THEN <<positionAt(t, Least(DeclaredNames(t, kwInterface, w)))>>
    ELSE IF FunctionNames(t, w) # {}
    THEN <<positionAt(t, Least(FunctionNames(t, w)))>>
    ELSE <<>>

\* C13: for every text and every queried word w, provideDefinition returns
\* zero or one location: the position where the name w begins in the first
\* class declaration of w, else in the first interface declaration of w,
\* else in the first function declaration of w, and nothing when w is not
\* declared; also for a w that is part of a keyword or modifier.
C13_LocationIsWhereTheNameBegins ==
    (definition.done /\ definition.word # <<>>) =>
        /\ Len(definition.locations) <= 1
        /\ definition.locations = ExpectedDefinition(text, definition.word)

---------------------------------------------------------------------------
(* Claims about completion and outline (checked under SpecScan)            *)

\* the (name, kind) pairs of the outline symbols and of the completion items
OutlinePairs == [k \in 1..Len(outline.symbols) |->
                    <<outline.symbols[k].name, outline.symbols[k].kind>>]

CompletionPairs == [k \in 1..Len(completion.items) |->
                    <<completion.items[k].label, completion.items[k].kind>>]

\* C14: for every text, the completion candidates of parseDocumentSymbols
\* and the outline symbols of provideDocumentSymbols are the same sequence
\* of (name, kind) pairs, also when a function declaration's parameter list
\* is not closed by ')'.
C14_CompletionEnumeratesTheOutline ==
    (outline.done /\ completion.done) => CompletionPairs = OutlinePairs

=============================================================================
